---- MODULE Spec2Model ----
(***************************************************************************)
(* A model of recoversb.c (the clear_sb_ro kernel module): the 64-byte     *)
(* clear_device buffer, the sysfs store/show callbacks, the scan of the    *)
(* super_block list and the module's init/exit functions.                  *)
(*                                                                         *)
(* Bytes are integers (their ASCII codes); clear_device is a function on   *)
(* 0..63, as the C array is; the data a write hands to the store callback  *)
(* is a sequence of `count` bytes (buf[i] of the code is buf[i+1] here)    *)
(* followed by the NUL that kernfs puts after it.                          *)
(***************************************************************************)
EXTENDS Integers, Sequences, FiniteSets, TLC

\* ------------------------------------------------------------ constants
NUL == 0
LF == 10
CR == 13
sizeof_clear_device == 64
PAGE_SIZE == 4096
ENOMEM == 12

\* ------------------------------------------------------------ bounds
\* Longest free tail of an input written to the attribute.
MaxTail == 2
\* Number of writes in one run of the string specification.
MaxStores == 1
\* Longest super_block list, and number of writes in one run over it.
MaxSupers == 2
MaxMountStores == 2

Min(a, b) == IF a < b THEN a ELSE b

\* ------------------------------------------------------------ the buffer
\* static char clear_device[64] = "";
ZeroBuffer == [i \in 0..(sizeof_clear_device - 1) |-> NUL]

\* The memory a store works on: the array, and the indices the store has
\* written so far (an index outside the array lands outside the object).
Mem(cd) == [cd |-> cd, written |-> {}]

WriteByte(m, i, b) ==
    [cd |-> IF i \in DOMAIN m.cd THEN [m.cd EXCEPT ![i] = b] ELSE m.cd,
     written |-> m.written \cup {i}]

\* The element of a set of one element ({e(x) : x \in {v}} evaluates v once).
Only(S) == CHOOSE x \in S : TRUE

\* The least element of a non-empty set of integers.
Least(S) == CHOOSE i \in S : \A j \in S : i <= j

\* strlen of the data of a write: the bytes before its first NUL (kernfs puts
\* a NUL after the count bytes).
strlen_seq(s) == Least({i \in 0..(Len(s) - 1) : s[i + 1] = NUL} \cup {Len(s)})

\* strlen of the array: what strcmp and "%s" read as the string.
strlen_buf(cd) ==
    Least({i \in DOMAIN cd : cd[i] = NUL} \cup {sizeof_clear_device})

CStr(cd) == [k \in 1..strlen_buf(cd) |-> cd[k - 1]]

\* size_t len = min(count, (size_t)(sizeof(clear_device) - 1));
StoreLenNoTerminator(count) == Min(count, sizeof_clear_device)

StoreLen(count) == Min(count, sizeof_clear_device - 1)

\* The byte strncpy stores at index i: the source's byte up to its NUL, NUL after.
StrncpyByte(src, i) == IF i < strlen_seq(src) THEN src[i + 1] ELSE NUL

\* strncpy(clear_device, buf, len) stores exactly n bytes, at 0 .. n-1: the
\* memory after its loop.
strncpy(m, src, n) ==
    Only({[cd |-> [i \in DOMAIN m.cd |->
                     IF i >= n THEN m.cd[i] ELSE IF i < end THEN src[i + 1] ELSE NUL],
           written |-> m.written \cup 0..(n - 1)] : end \in {strlen_seq(src)}})

\* clear_device[len] = '\0';
Terminate(m, len) == WriteByte(m, len, NUL)

\* The loop condition: len > 0 && (c[len-1] == '\n' || c[len-1] == '\r')
TrimCond(cd, len) == len > 0 /\ (cd[len - 1] = LF \/ cd[len - 1] = CR)

\* while (TrimCond) { clear_device[len - 1] = '\0'; len--; }
\* The loop leaves len at the greatest k <= len where the condition fails
\* (TrimEnd), having stored NUL at k .. len-1: the memory after the loop.
TrimNone(m, len) == m

TrimEnd(cd, len) ==
    CHOOSE k \in 0..len : ~TrimCond(cd, k) /\ \A j \in (k + 1)..len : TrimCond(cd, j)

TrimLoop(m, len) ==
    Only({[cd |-> [i \in DOMAIN m.cd |-> IF end <= i /\ i < len THEN NUL ELSE m.cd[i]],
           written |-> m.written \cup end..(len - 1)] : end \in {TrimEnd(m.cd, len)}})

\* Lines 79-89 as a whole: copy, terminate, trim.
StoreName(cd, buf) ==
    LET len == StoreLen(Len(buf))
    IN Only({TrimLoop(t, len) :
                t \in {Terminate(c, len) : c \in {strncpy(Mem(cd), buf, len)}}})

\* The name a write alone leaves in a fresh buffer.
TrimmedName(buf) == CStr(StoreName(ZeroBuffer, buf).cd)

\* ------------------------------------------------------------ super_blocks
\* A super_block as the scan reads it: s_bdev (is there a block device),
\* s_type ("NULL": no file_system_type, else its name), bd_part ("NULL": no
\* partition, "noinfo": a partition without info, "valid": both),
\* disk_name (bd_disk->disk_name) and s_flags (the set of flags that are set).
Super(bdev, type, part, name, flags) ==
    [s_bdev |-> bdev, s_type |-> type, bd_part |-> part,
     disk_name |-> name, s_flags |-> flags]

\* s_flags &= ~MS_RDONLY
KeepFlags(flags) == flags

ClearRdonly(flags) == flags \ {"MS_RDONLY"}

\* The conditions of lines 48-57 on one super_block.
SbMatchesAnyType(r, devname) ==
    /\ r.s_bdev
    /\ r.s_type # "NULL"
    /\ r.bd_part = "valid"
    /\ r.disk_name = devname

SbMatches(r, devname) ==
    /\ r.s_bdev
    /\ r.s_type # "NULL" /\ r.s_type = "ext4"
    /\ r.bd_part = "valid"
    /\ r.disk_name = devname

\* for_each_super(sb) { ... return sb; } return NULL;   (0 is NULL)
RECURSIVE find_from(_, _, _)
find_from(list, devname, i) ==
    IF i > Len(list) THEN 0
    ELSE IF SbMatches(list[i], devname) THEN i
    ELSE find_from(list, devname, i + 1)

RECURSIVE find_last_from(_, _, _)
find_last_from(list, devname, i) ==
    IF i < 1 THEN 0
    ELSE IF SbMatches(list[i], devname) THEN i
    ELSE find_last_from(list, devname, i - 1)

find_last_superblock_by_dev(list, devname) ==
    find_last_from(list, devname, Len(list))

find_ext4_superblock_by_dev(list, devname) == find_from(list, devname, 1)

\* return count;   (line 97, no super_block found, and line 117)
ReturnStoredLength(count) == StoreLen(count)

ReturnNotFound(count) == count

ReturnFound(count) == count

\* scnprintf(buf, PAGE_SIZE, "%s\n", clear_device): the text, cut to PAGE_SIZE - 1.
ShowText(cd) ==
    LET text == CStr(cd) \o <<LF>>
    IN SubSeq(text, 1, Min(Len(text), PAGE_SIZE - 1))

\* ------------------------------------------------------------ inputs
\* 'a' (97) and the bytes the code treats specially.
Alphabet == {NUL, LF, CR, 97}

PadBytes == {97, LF}

HeadLens == {0, sizeof_clear_device - 2, sizeof_clear_device - 1}

Pad(c, n) == [k \in 1..n |-> c]

Tails == UNION {[1..n -> Alphabet] : n \in 0..MaxTail}

\* What is written to the attribute in the string specification: short inputs,
\* and inputs that reach and pass the end of the buffer.
Inputs == {Pad(c, h) \o t : c \in PadBytes, h \in HeadLens, t \in Tails}

\* The super_block list of the string specification.
FixedSupers ==
    << Super(TRUE, "ext3", "valid", <<97>>, {"MS_RDONLY", "MS_NOATIME"}),
       Super(TRUE, "ext4", "valid", <<97>>, {"MS_RDONLY", "MS_NOATIME"}),
       Super(TRUE, "ext4", "valid", <<97, 97>>, {"MS_NOATIME"}) >>

\* The super_blocks the lists of the mount specification are made of: 'a' on
\* each file system type, read-only or not; 'a' on ext4 without a partition,
\* or with one that has no info; an ext4 without a block device; 'A' on ext4.
FlagSets == {{"MS_NOATIME"}, {"MS_RDONLY", "MS_NOATIME"}}

SbPool ==
    {Super(TRUE, t, "valid", <<97>>, f) : t \in {"ext4", "ext3", "NULL"}, f \in FlagSets}
    \cup {Super(TRUE, "ext4", p, <<97>>, {"MS_RDONLY", "MS_NOATIME"}) : p \in {"NULL", "noinfo"}}
    \cup {Super(FALSE, "ext4", "NULL", <<>>, {"MS_RDONLY", "MS_NOATIME"})}
    \cup {Super(TRUE, "ext4", "valid", <<65>>, f) : f \in FlagSets}

SuperLists == UNION {[1..n -> SbPool] : n \in 0..MaxSupers}

\* What is written to the attribute in the mount specification: "", "a", "A"
\* and "aa", each with and without a newline after it.
MountInputs ==
    {n \o e : n \in {<<>>, <<97>>, <<65>>, <<97, 97>>}, e \in {<<>>, <<LF>>}}

\* The concurrent specification: the names "aA", "Aa" and "a", each written
\* with a newline after it, and a read-only ext4 super_block for each name.
ConcInputs == {<<97, 65, LF>>, <<65, 97, LF>>, <<97, LF>>}

ConcSupers ==
    << Super(TRUE, "ext4", "valid", <<97, 65>>, {"MS_RDONLY", "MS_NOATIME"}),
       Super(TRUE, "ext4", "valid", <<65, 97>>, {"MS_RDONLY", "MS_NOATIME"}),
       Super(TRUE, "ext4", "valid", <<97>>, {"MS_RDONLY", "MS_NOATIME"}) >>

\* ------------------------------------------------------------ state
VARIABLES
    module_loaded,    \* the module is loaded (init returned 0, exit not yet run)
    kobj_registered,  \* the kobject "clear_sb_ro" exists under kernel_kobj
    attr_registered,  \* the attribute group (clear_device) exists on it
    init_ret,         \* what the last clear_sb_ro_init returned
    clear_device,     \* static char clear_device[64]
    supers,           \* the host's list of super_blocks, in iteration order
    op,               \* the last operation that ran
    in_buf,           \* buf of the last store (count is its length)
    ret,              \* what the last store returned
    sb,               \* what the scan of the last store returned (0: NULL)
    klog,             \* the kernel log: per store, the device and the outcome
    written,          \* the indices of clear_device the last store wrote
    show_out,         \* what the last show put in the caller's buffer
    nstores,          \* number of stores so far
    pc, w_buf, w_len, w_i, w_sb, w_ret, w_cleared  \* concurrent writers

seqvars == <<module_loaded, kobj_registered, attr_registered, init_ret,
             clear_device, supers, op, in_buf, ret, sb, klog, written,
             show_out, nstores>>

wvars == <<pc, w_buf, w_len, w_i, w_sb, w_ret, w_cleared>>

vars == <<seqvars, wvars>>

Writers == {1, 2}

WritersIdle ==
    /\ pc = [w \in Writers |-> "idle"]
    /\ w_buf = [w \in Writers |-> <<>>]
    /\ w_len = [w \in Writers |-> 0]
    /\ w_i = [w \in Writers |-> 0]
    /\ w_sb = [w \in Writers |-> 0]
    /\ w_ret = [w \in Writers |-> 0]
    /\ w_cleared = [w \in Writers |-> 0]

NoOperationYet ==
    /\ op = "none"
    /\ in_buf = <<>>
    /\ ret = 0
    /\ sb = 0
    /\ klog = <<>>
    /\ written = {}
    /\ show_out = <<>>
    /\ nstores = 0

\* Before the module is loaded.
Init ==
    /\ module_loaded = FALSE
    /\ kobj_registered = FALSE
    /\ attr_registered = FALSE
    /\ init_ret = 0
    /\ clear_device = ZeroBuffer
    /\ supers = FixedSupers
    /\ NoOperationYet
    /\ WritersIdle

\* ------------------------------------------------------------ init and exit
\* clear_sb_ro_init. kobject_create_and_add returns NULL when the allocation
\* fails or the name is taken; sysfs_create_group returns 0 or an error.
clear_sb_ro_init ==
    /\ ~module_loaded
    /\ \E alloc_ok \in BOOLEAN, group_ret \in {0, -ENOMEM} :
          LET kobj == alloc_ok /\ ~kobj_registered
          IN IF ~kobj
             THEN /\ init_ret' = -ENOMEM
                  /\ UNCHANGED <<kobj_registered, attr_registered>>
             ELSE /\ init_ret' = group_ret
                  /\ kobj_registered' = (group_ret = 0)
                  /\ attr_registered' = (group_ret = 0)
    /\ module_loaded' = (init_ret' = 0)
    /\ clear_device' = ZeroBuffer
    /\ op' = "init"
    /\ UNCHANGED <<supers, in_buf, ret, sb, klog, written, show_out, nstores>>
    /\ UNCHANGED wvars

\* clear_sb_ro_exit: a pr_info and nothing else. The module's data goes with it.
clear_sb_ro_exit ==
    /\ module_loaded
    /\ module_loaded' = FALSE
    /\ clear_device' = ZeroBuffer
    /\ op' = "exit"
    /\ in_buf' = <<>> /\ ret' = 0 /\ sb' = 0 /\ written' = {} /\ show_out' = <<>>
    /\ UNCHANGED <<kobj_registered, attr_registered, init_ret, supers, klog, nstores>>
    /\ UNCHANGED wvars

\* ------------------------------------------------------------ store and show
\* clear_device_store(kobj, attr, buf, count), run from start to end.
clear_device_store(inputs, cap) ==
    /\ module_loaded /\ attr_registered
    /\ nstores < cap
    /\ \E buf \in inputs :
        \E m \in {StoreName(clear_device, buf)} : \E dev \in {CStr(m.cd)} :
          LET count == Len(buf)
              found == find_ext4_superblock_by_dev(supers, dev)
          IN /\ in_buf' = buf
             /\ clear_device' = m.cd
             /\ written' = m.written
             /\ sb' = found
             /\ IF found = 0
                THEN /\ klog' = Append(klog, [dev |-> dev, outcome |-> "notfound"])
                     /\ supers' = supers
                     /\ ret' = ReturnNotFound(count)
                ELSE IF "MS_RDONLY" \in supers[found].s_flags
                THEN /\ klog' = Append(klog, [dev |-> dev, outcome |-> "cleared"])
                     /\ supers' = [supers EXCEPT ![found].s_flags = ClearRdonly(@)]
                     /\ ret' = ReturnFound(count)
                ELSE /\ klog' = Append(klog, [dev |-> dev, outcome |-> "alreadywritable"])
                     /\ supers' = supers
                     /\ ret' = ReturnFound(count)
    /\ op' = "store"
    /\ nstores' = nstores + 1
    /\ UNCHANGED <<module_loaded, kobj_registered, attr_registered, init_ret, show_out>>
    /\ UNCHANGED wvars

\* clear_device_show(kobj, attr, buf)
clear_device_show ==
    /\ module_loaded /\ attr_registered
    /\ show_out' = ShowText(clear_device)
    /\ op' = "show"
    /\ UNCHANGED <<module_loaded, kobj_registered, attr_registered, init_ret,
                   clear_device, supers, in_buf, ret, sb, klog, written, nstores>>
    /\ UNCHANGED wvars

StoreInput == clear_device_store(Inputs, MaxStores)

Next ==
    \/ clear_sb_ro_init
    \/ clear_sb_ro_exit
    \/ StoreInput
    \/ clear_device_show

Spec == Init /\ [][Next]_vars

\* ------------------------------------------------------------ mount specification
\* The module is loaded; the host's list is any list of at most MaxSupers
\* super_blocks; device names are written to the attribute.
InitMounts ==
    /\ module_loaded = TRUE
    /\ kobj_registered = TRUE
    /\ attr_registered = TRUE
    /\ init_ret = 0
    /\ clear_device = ZeroBuffer
    /\ supers \in SuperLists
    /\ NoOperationYet
    /\ WritersIdle

StoreDevice == clear_device_store(MountInputs, MaxMountStores)

NextMounts == StoreDevice

SpecMounts == InitMounts /\ [][NextMounts]_vars

\* ------------------------------------------------------------ concurrent writers
\* Two writes run clear_device_store at the same time (each through its own
\* open file): nothing in the code orders their accesses to clear_device, so
\* the stores and loads of the two interleave in any order. One step is one
\* store to the array, or the scan, or the update of s_flags.
InitConc ==
    /\ module_loaded = TRUE
    /\ kobj_registered = TRUE
    /\ attr_registered = TRUE
    /\ init_ret = 0
    /\ clear_device = ZeroBuffer
    /\ supers = ConcSupers
    /\ NoOperationYet
    /\ WritersIdle

\* Entry: len = min(count, sizeof(clear_device) - 1)
w_enter(w) ==
    /\ pc[w] = "idle"
    /\ \E buf \in ConcInputs :
          /\ w_buf' = [w_buf EXCEPT ![w] = buf]
          /\ w_len' = [w_len EXCEPT ![w] = StoreLen(Len(buf))]
    /\ w_i' = [w_i EXCEPT ![w] = 0]
    /\ pc' = [pc EXCEPT ![w] = "copy"]
    /\ UNCHANGED <<w_sb, w_ret, w_cleared>>
    /\ UNCHANGED seqvars

\* strncpy stores its next byte.
w_copy(w) ==
    /\ pc[w] = "copy"
    /\ w_i[w] < w_len[w]
    /\ clear_device' = WriteByte(Mem(clear_device), w_i[w], StrncpyByte(w_buf[w], w_i[w])).cd
    /\ w_i' = [w_i EXCEPT ![w] = @ + 1]
    /\ UNCHANGED <<pc, w_buf, w_len, w_sb, w_ret, w_cleared>>
    /\ UNCHANGED <<module_loaded, kobj_registered, attr_registered, init_ret, supers,
                   op, in_buf, ret, sb, klog, written, show_out, nstores>>

\* clear_device[len] = '\0';
w_terminate(w) ==
    /\ pc[w] = "copy"
    /\ w_i[w] >= w_len[w]
    /\ clear_device' = Terminate(Mem(clear_device), w_len[w]).cd
    /\ pc' = [pc EXCEPT ![w] = "trim"]
    /\ UNCHANGED <<w_buf, w_len, w_i, w_sb, w_ret, w_cleared>>
    /\ UNCHANGED <<module_loaded, kobj_registered, attr_registered, init_ret, supers,
                   op, in_buf, ret, sb, klog, written, show_out, nstores>>

\* One turn of the trimming loop.
w_trim(w) ==
    /\ pc[w] = "trim"
    /\ TrimCond(clear_device, w_len[w])
    /\ clear_device' = WriteByte(Mem(clear_device), w_len[w] - 1, NUL).cd
    /\ w_len' = [w_len EXCEPT ![w] = @ - 1]
    /\ UNCHANGED <<pc, w_buf, w_i, w_sb, w_ret, w_cleared>>
    /\ UNCHANGED <<module_loaded, kobj_registered, attr_registered, init_ret, supers,
                   op, in_buf, ret, sb, klog, written, show_out, nstores>>

\* The trimming loop ends.
w_trim_end(w) ==
    /\ pc[w] = "trim"
    /\ ~TrimCond(clear_device, w_len[w])
    /\ pc' = [pc EXCEPT ![w] = "scan"]
    /\ UNCHANGED <<w_buf, w_len, w_i, w_sb, w_ret, w_cleared>>
    /\ UNCHANGED seqvars

\* sb = find_ext4_superblock_by_dev(clear_device); if (!sb) return count;
w_scan(w) ==
    /\ pc[w] = "scan"
    /\ LET found == find_ext4_superblock_by_dev(supers, CStr(clear_device))
       IN /\ w_sb' = [w_sb EXCEPT ![w] = found]
          /\ IF found = 0
             THEN /\ w_ret' = [w_ret EXCEPT ![w] = ReturnNotFound(Len(w_buf[w]))]
                  /\ pc' = [pc EXCEPT ![w] = "done"]
             ELSE /\ w_ret' = w_ret
                  /\ pc' = [pc EXCEPT ![w] = "mutate"]
    /\ UNCHANGED <<w_buf, w_len, w_i, w_cleared>>
    /\ UNCHANGED seqvars

\* if (sb->s_flags & MS_RDONLY) sb->s_flags &= ~MS_RDONLY; return count;
w_mutate(w) ==
    /\ pc[w] = "mutate"
    /\ IF "MS_RDONLY" \in supers[w_sb[w]].s_flags
       THEN /\ supers' = [supers EXCEPT ![w_sb[w]].s_flags = ClearRdonly(@)]
            /\ w_cleared' = [w_cleared EXCEPT ![w] = w_sb[w]]
       ELSE /\ supers' = supers
            /\ w_cleared' = w_cleared
    /\ w_ret' = [w_ret EXCEPT ![w] = ReturnFound(Len(w_buf[w]))]
    /\ pc' = [pc EXCEPT ![w] = "done"]
    /\ UNCHANGED <<w_buf, w_len, w_i, w_sb>>
    /\ UNCHANGED <<module_loaded, kobj_registered, attr_registered, init_ret,
                   clear_device, op, in_buf, ret, sb, klog, written, show_out, nstores>>

NextConc ==
    \E w \in Writers :
        \/ w_enter(w)
        \/ w_copy(w)
        \/ w_terminate(w)
        \/ w_trim(w)
        \/ w_trim_end(w)
        \/ w_scan(w)
        \/ w_mutate(w)

SpecConc == InitConc /\ [][NextConc]_vars

\* ------------------------------------------------------------ claims, Spec
Range(f) == {f[k] : k \in DOMAIN f}

LastOutcome == IF klog = <<>> THEN "none" ELSE klog[Len(klog)].outcome

EndsInNewline(s) == s # <<>> /\ s[Len(s)] \in {LF, CR}

\* C1: every write reports success: the store returns count, whether no
\* super_block was found, the flag was cleared or it was already clear, also
\* for inputs longer than the 63 bytes that are stored.
C1_StoreReturnsCount == op = "store" => ret = Len(in_buf)

C1_Witness ==
    /\ op = "store"
    /\ Len(in_buf) > sizeof_clear_device - 1
    /\ LastOutcome = "notfound"
    /\ ret = Len(in_buf)

\* The data of a write of a device name followed by one newline: the name is
\* a string (no NUL in it) of at most 63 bytes that does not end in newline
\* or carriage return.
NameThenNewline(b) ==
    /\ Len(b) >= 1
    /\ b[Len(b)] = LF
    /\ LET name == SubSeq(b, 1, Len(b) - 1)
       IN /\ Len(name) <= sizeof_clear_device - 1
          /\ NUL \notin Range(name)
          /\ ~EndsInNewline(name)

\* C2: round trip: after the write of such a name followed by a newline, a
\* read with no write in between returns the name followed by one newline,
\* which is the data that was written.
C2_RoundTrip ==
    (op = "show" /\ nstores > 0 /\ NameThenNewline(in_buf)) => show_out = in_buf

C2_Witness ==
    /\ op = "show"
    /\ NameThenNewline(in_buf)
    /\ Len(in_buf) = sizeof_clear_device
    /\ show_out = in_buf

\* C3 as stated: a write of more than the storage bound stores exactly 63
\* characters, and writes no index outside 0..63.
C3_ExactlyBoundMinusOne ==
    (op = "store" /\ Len(in_buf) > sizeof_clear_device)
        => /\ Len(CStr(clear_device)) = sizeof_clear_device - 1
           /\ written \subseteq 0..(sizeof_clear_device - 1)

\* C3 as amended: a write of more than 63 bytes stores at most 63 characters,
\* terminated inside the array, and writes no index outside 0..63; the stored
\* name is exactly the first 63 bytes of the input when these hold no NUL and
\* the 63rd is neither newline nor carriage return.
C3_Truncation ==
    (op = "store" /\ Len(in_buf) > sizeof_clear_device - 1)
        => LET head == SubSeq(in_buf, 1, sizeof_clear_device - 1)
           IN /\ Len(CStr(clear_device)) <= sizeof_clear_device - 1
              /\ clear_device[sizeof_clear_device - 1] = NUL
              /\ written \subseteq 0..(sizeof_clear_device - 1)
              /\ (NUL \notin Range(head) /\ ~EndsInNewline(head))
                    => CStr(clear_device) = head

C3_Witness ==
    /\ op = "store"
    /\ Len(in_buf) > sizeof_clear_device
    /\ CStr(clear_device) = SubSeq(in_buf, 1, sizeof_clear_device - 1)
    /\ (sizeof_clear_device - 1) \in written

\* C7: the attribute exists while the module is loaded, nothing is registered
\* while it is not, and a load that fails leaves nothing registered.
C7_Lifecycle ==
    /\ module_loaded => (kobj_registered /\ attr_registered)
    /\ ~module_loaded => (~kobj_registered /\ ~attr_registered)
    /\ (op = "init" /\ init_ret # 0)
          => (~module_loaded /\ ~kobj_registered /\ ~attr_registered)

\* C8: at load and after every write, whatever its bytes, the stored name has
\* at most 63 characters and does not end in newline or carriage return.
C8_NameTrimmed ==
    module_loaded
        => /\ Len(CStr(clear_device)) <= sizeof_clear_device - 1
           /\ ~EndsInNewline(CStr(clear_device))

\* ------------------------------------------------------------ claims, SpecMounts
\* A step that is a store.
StoreStep == op' = "store" /\ nstores' = nstores + 1

\* C5: a write of a name that is the device name of no ext4 super_block finds
\* nothing and leaves every s_flags as it was, also when a super_block of
\* another type has that name; a super_block that is not ext4 is never the one
\* found, nor changed.
C5_OnlyExt4 ==
    [][StoreStep =>
        LET d == CStr(clear_device')
            ext4names == {supers[i].disk_name :
                            i \in {j \in DOMAIN supers :
                                     supers[j].s_bdev /\ supers[j].s_type = "ext4"}}
        IN /\ d \notin ext4names
                => (sb' = 0 /\ LastOutcome' = "notfound" /\ supers' = supers)
           /\ sb' # 0 => supers[sb'].s_type = "ext4"
           /\ \A i \in DOMAIN supers :
                 supers[i].s_type # "ext4" => supers'[i] = supers[i]
      ]_vars

C5_Witness ==
    /\ op = "store"
    /\ LastOutcome = "notfound"
    /\ CStr(clear_device) = <<97>>
    /\ Len(supers) = 2
    /\ \A i \in DOMAIN supers :
          /\ supers[i].s_bdev /\ supers[i].bd_part = "valid"
          /\ supers[i].s_type \in {"ext3", "NULL"}
          /\ supers[i].disk_name = <<97>>
          /\ "MS_RDONLY" \in supers[i].s_flags

\* C6: a write that finds a super_block with MS_RDONLY set clears that flag and
\* no other (outcome cleared); the next write, of the same name, finds the
\* same super_block, reports it not read-only and changes nothing.
C6_Idempotent ==
    [][StoreStep =>
        /\ (sb' # 0 /\ "MS_RDONLY" \in supers[sb'].s_flags)
              => /\ LastOutcome' = "cleared"
                 /\ supers' = [supers EXCEPT ![sb'].s_flags = @ \ {"MS_RDONLY"}]
        /\ (op = "store" /\ LastOutcome = "cleared"
              /\ CStr(clear_device') = CStr(clear_device))
              => /\ LastOutcome' = "alreadywritable"
                 /\ sb' = sb
                 /\ supers' = supers
      ]_vars

C6_Witness ==
    /\ Len(klog) = 2
    /\ klog[1].outcome = "cleared"
    /\ klog[2].outcome = "alreadywritable"
    /\ klog[2].dev = klog[1].dev
    /\ sb # 0
    /\ supers[sb].s_flags = {"MS_NOATIME"}

\* C9: the scan returns the first super_block of the list that has a block
\* device, type exactly "ext4", a partition with info and a disk name equal
\* byte for byte to the name; NULL exactly when there is none; and no
\* super_block is changed by it (the store then changes s_flags of the one
\* returned, and nothing else).
C9_FirstMatch ==
    [][StoreStep =>
        LET d == CStr(clear_device')
            Sat(i) == /\ supers[i].s_bdev
                      /\ supers[i].s_type = "ext4"
                      /\ supers[i].bd_part = "valid"
                      /\ supers[i].disk_name = d
        IN /\ sb' = 0 <=> ~(\E i \in DOMAIN supers : Sat(i))
           /\ sb' # 0 => (sb' \in DOMAIN supers /\ Sat(sb')
                           /\ \A j \in 1..(sb' - 1) : ~Sat(j))
           /\ DOMAIN supers' = DOMAIN supers
           /\ \A i \in DOMAIN supers :
                 /\ i # sb' => supers'[i] = supers[i]
                 /\ [supers'[i] EXCEPT !.s_flags = {}] = [supers[i] EXCEPT !.s_flags = {}]
      ]_vars

C9_Witness ==
    /\ op = "store"
    /\ sb = 2
    /\ Len(supers) = 2
    /\ supers[1].disk_name = CStr(clear_device)
    /\ supers[1].s_type = "ext4"
    /\ supers[1].bd_part = "noinfo"
    /\ "MS_RDONLY" \in supers[1].s_flags

\* ------------------------------------------------------------ claims, SpecConc
\* C4: when two writes of different device names run at the same time, then
\* once both have returned the stored name is one of the two names written
\* (as a write alone stores it), never a mixture of their bytes.
C4_OneOfTheTwoNames ==
    ((\A w \in Writers : pc[w] = "done") /\ w_buf[1] # w_buf[2])
        => CStr(clear_device) \in {TrimmedName(w_buf[w]) : w \in Writers}

\* C10: a write that clears MS_RDONLY of a super_block clears it on the one
\* whose disk name is the name that this write supplied.
C10_ClearsItsOwnDevice ==
    \A w \in Writers :
        w_cleared[w] # 0
            => supers[w_cleared[w]].disk_name = TrimmedName(w_buf[w])

====
